---- MODULE Spec2Model ----
(***************************************************************************)
(* Model of starship's direnv module (src/modules/direnv.rs).              *)
(*                                                                         *)
(* Strings and paths are sequences of one-character strings, so that       *)
(* strip_prefix, trim, Path::join and Path::ancestors are computed on      *)
(* characters as the code computes them.  Option<T> is a sequence of       *)
(* length 0 (None) or 1 (Some).                                            *)
(***************************************************************************)
EXTENDS Integers, Sequences, FiniteSets, TLC

VARIABLES
    files,        \* the filesystem: path -> entry (missing, unreadable, file)
    allow_dir,    \* names of the marker files in ~/.local/share/direnv/allow
    deny_dir,     \* names of the marker files in ~/.local/share/direnv/deny
    current_dir,  \* context.current_dir
    direnv_file,  \* what context.get_env("DIRENV_FILE") returns
    result,       \* outcome of the last call of module() in this environment
    text,         \* the text handed to DirenvState::from_str
    parsed        \* outcome of the last DirenvState::from_str(text)

vars == <<files, allow_dir, deny_dir, current_dir, direnv_file, result, text, parsed>>

envVars == <<files, allow_dir, deny_dir, current_dir, direnv_file, result>>

parseVars == <<text, parsed>>

\* ------------------------------------------------------------------ bounds
MaxDepth == 1

MaxLines == 3

\* ------------------------------------------------------------- Option<T>
None == <<>>

Some(x) == <<x>>

IsSome(o) == Len(o) = 1

IsNone(o) == Len(o) = 0

Unwrap(o) == o[1]

\* ------------------------------------------------------------ characters
NonUtf8 == "xFF"

IsWhitespace(c) == c \in {" ", "\t"}

ENVRC == <<".", "e", "n", "v", "r", "c">>

\* ----------------------------------------------------------------- paths
RECURSIVE Dir(_)
Dir(n) ==
    IF n = 0 THEN <<"/">>
    ELSE IF n = 1 THEN <<"/", "a">>
    ELSE Dir(n - 1) \o <<"/", "a">>

BadDir == <<"/", NonUtf8>>

Dirs == {Dir(n) : n \in 0..MaxDepth} \cup {BadDir}

\* Path::join of a relative name
Join(p, name) ==
    IF Len(p) = 0 THEN name
    ELSE IF p[Len(p)] = "/" THEN p \o name
    ELSE p \o <<"/">> \o name

LastSlash(p) ==
    LET S == {i \in 1..Len(p) : p[i] = "/"}
    IN  IF S = {} THEN 0 ELSE CHOOSE i \in S : \A j \in S : j <= i

\* Path::parent of a normalised path
Parent(p) ==
    IF Len(p) = 0 \/ p = <<"/">> THEN None
    ELSE LET i == LastSlash(p)
         IN  IF i = 0 THEN Some(<<>>)
             ELSE IF i = 1 THEN Some(<<"/">>)
             ELSE Some(SubSeq(p, 1, i - 1))

\* Path::to_str
ToStr(p) == IF \E i \in 1..Len(p) : p[i] = NonUtf8 THEN None ELSE Some(p)

FilePaths == {Join(d, ENVRC) : d \in Dirs}

\* ------------------------------------------------------------ filesystem
Missing == [exists |-> FALSE, readable |-> FALSE, bytes |-> <<>>]

Unreadable == [exists |-> TRUE, readable |-> FALSE, bytes |-> <<>>]

File(c) == [exists |-> TRUE, readable |-> TRUE, bytes |-> c]

Contents == {<<>>, <<"x">>}

Entry(fs, p) == IF p \in DOMAIN fs THEN fs[p] ELSE Missing

\* Path::exists
PathExists(fs, p) == Entry(fs, p).exists

\* std::fs::read
FsRead(fs, p) ==
    IF Entry(fs, p).exists /\ Entry(fs, p).readable
    THEN [ok |-> TRUE, bytes |-> Entry(fs, p).bytes]
    ELSE [ok |-> FALSE, bytes |-> <<>>]

\* --------------------------------------------------------------- results
Ok(v) == [ok |-> TRUE, val |-> v, err |-> ""]

Err(e) == [ok |-> FALSE, val |-> <<>>, err |-> e]

\* ----------------------------------------------------------- AllowStatus
AllowStatus == {"Allowed", "NotAllowed", "Denied"}

\* impl FromStr for AllowStatus
AllowStatus_from_str(s) ==
    IF s = <<"0">> \/ s = <<"t", "r", "u", "e">> THEN Ok("Allowed")
    ELSE IF s = <<"1">> THEN Ok("NotAllowed")
    ELSE IF s = <<"2">> \/ s = <<"f", "a", "l", "s", "e">> THEN Ok("Denied")
    ELSE Err("invalid allow status")

\* a conversion that defaults on an unknown code instead of failing
AllowStatus_try_from_default(u) ==
    IF u = 0 THEN Ok("Allowed")
    ELSE IF u = 2 THEN Ok("Denied")
    ELSE Ok("NotAllowed")

\* impl TryFrom<u8> for AllowStatus
AllowStatus_try_from(u) ==
    IF u = 0 THEN Ok("Allowed")
    ELSE IF u = 1 THEN Ok("NotAllowed")
    ELSE IF u = 2 THEN Ok("Denied")
    ELSE Err("unknown integer allow status")

\* ----------------------------------------------------------- DirenvState
DirenvState(rc, loaded, a, la) ==
    [rc_path |-> rc, loaded_rc_path |-> loaded, allowed |-> a, loaded_allowed |-> la]

\* ------------------------------------------------------------ JSON values
JNull == [t |-> "null"]

JNum(n) == [t |-> "num", n |-> n]

JStr(s) == [t |-> "str", s |-> s]

JObj(f) == [t |-> "obj", f |-> f]

HasField(v, k) == v.t = "obj" /\ k \in DOMAIN v.f

\* #[derive(Deserialize)] struct RCStatus { allowed: u8, path: PathBuf }
Deserialize_RCStatus(v) ==
    IF /\ HasField(v, "allowed") /\ HasField(v, "path")
       /\ v.f["allowed"].t = "num" /\ v.f["allowed"].n \in 0..255
       /\ v.f["path"].t = "str"
    THEN Ok([allowed |-> v.f["allowed"].n, path |-> v.f["path"].s])
    ELSE Err("serde")

\* #[derive(Deserialize)] struct State { foundRC: RCStatus, loadedRC: RCStatus }
Deserialize_State(v) ==
    IF /\ HasField(v, "foundRC") /\ HasField(v, "loadedRC")
       /\ Deserialize_RCStatus(v.f["foundRC"]).ok
       /\ Deserialize_RCStatus(v.f["loadedRC"]).ok
    THEN Ok([found_rc |-> Deserialize_RCStatus(v.f["foundRC"]).val,
             loaded_rc |-> Deserialize_RCStatus(v.f["loadedRC"]).val])
    ELSE Err("serde")

\* #[derive(Deserialize)] struct RawDirenvState { state: State }
Deserialize_RawDirenvState(v) ==
    IF HasField(v, "state") /\ Deserialize_State(v.f["state"]).ok
    THEN Ok([state |-> Deserialize_State(v.f["state"]).val])
    ELSE Err("serde")

\* ------------------------------------------------------------------ texts
\* A text is either the serialisation of a JSON document or a sequence of
\* lines that is not JSON.
JsonText(doc) == [kind |-> "json", doc |-> doc, lines |-> <<>>]

LineText(ls) == [kind |-> "lines", doc |-> JNull, lines |-> ls]

\* serde_json::from_str::<RawDirenvState>(s)
serde_json_from_str(s) ==
    IF s.kind = "json" THEN Deserialize_RawDirenvState(s.doc) ELSE Err("serde")

\* s.lines(): a serialised JSON document is one line that starts with a brace
Lines(s) == IF s.kind = "json" THEN << <<"{">> >> ELSE s.lines

\* ---------------------------------------------------------------- strings
\* str::strip_prefix
StripPrefix(line, prefix) ==
    IF Len(line) >= Len(prefix) /\ SubSeq(line, 1, Len(prefix)) = prefix
    THEN Some(SubSeq(line, Len(prefix) + 1, Len(line)))
    ELSE None

RECURSIVE TrimStart(_)
TrimStart(s) ==
    IF Len(s) > 0 /\ IsWhitespace(s[1]) THEN TrimStart(Tail(s)) ELSE s

RECURSIVE TrimEnd(_)
TrimEnd(s) ==
    IF Len(s) > 0 /\ IsWhitespace(s[Len(s)]) THEN TrimEnd(SubSeq(s, 1, Len(s) - 1)) ELSE s

\* str::trim
Trim(s) == TrimEnd(TrimStart(s))

FOUND_RC_PATH == <<"F", "o", "u", "n", "d", " ", "R", "C", " ", "p", "a", "t", "h">>

FOUND_RC_ALLOWED == <<"F", "o", "u", "n", "d", " ", "R", "C", " ", "a", "l", "l", "o", "w", "e", "d">>

LOADED_RC_PATH == <<"L", "o", "a", "d", "e", "d", " ", "R", "C", " ", "p", "a", "t", "h">>

LOADED_RC_ALLOWED == <<"L", "o", "a", "d", "e", "d", " ", "R", "C", " ", "a", "l", "l", "o", "w", "e", "d">>

\* lines of the tests' fixtures that no prefix matches
FOUND_RC_ALLOWPATH == <<"F", "o", "u", "n", "d", " ", "R", "C", " ", "a", "l", "l", "o", "w", "P", "a", "t", "h", " ", "/", "x">>

NO_ENVRC_FOUND == <<"N", "o", " ", ".", "e", "n", "v", "r", "c", " ", "o", "r", " ", ".", "e", "n", "v", " ", "f", "o", "u", "n", "d">>

\* --------------------------------------------------- DirenvState::from_lines
\* the body of the loop over s.lines(), with the ? operator's early return
RECURSIVE from_lines_loop(_, _, _)
from_lines_loop(ls, i, acc) ==
    IF i > Len(ls) THEN Ok(acc)
    ELSE LET line == ls[i]
         IN  IF IsSome(StripPrefix(line, FOUND_RC_PATH))
             THEN from_lines_loop(ls, i + 1,
                      [acc EXCEPT !.rc_path =
                          Some(Trim(Unwrap(StripPrefix(line, FOUND_RC_PATH))))])
             ELSE IF IsSome(StripPrefix(line, FOUND_RC_ALLOWED))
             THEN LET r == AllowStatus_from_str(Trim(Unwrap(StripPrefix(line, FOUND_RC_ALLOWED))))
                  IN  IF r.ok
                      THEN from_lines_loop(ls, i + 1, [acc EXCEPT !.allowed = Some(r.val)])
                      ELSE Err(r.err)
             ELSE IF IsSome(StripPrefix(line, LOADED_RC_PATH))
             THEN from_lines_loop(ls, i + 1,
                      [acc EXCEPT !.loaded_rc_path =
                          Some(Trim(Unwrap(StripPrefix(line, LOADED_RC_PATH))))])
             ELSE IF IsSome(StripPrefix(line, LOADED_RC_ALLOWED))
             THEN LET r == AllowStatus_from_str(Trim(Unwrap(StripPrefix(line, LOADED_RC_ALLOWED))))
                  IN  IF r.ok
                      THEN from_lines_loop(ls, i + 1, [acc EXCEPT !.loaded_allowed = Some(r.val)])
                      ELSE Err(r.err)
             ELSE from_lines_loop(ls, i + 1, acc)

\* a decode that also insists on the loaded side
from_lines_needs_loaded(s) ==
    LET r == from_lines_loop(Lines(s), 1, DirenvState(None, None, None, None))
    IN  IF ~r.ok THEN r
        ELSE IF IsNone(r.val.rc_path) \/ IsNone(r.val.allowed) \/ IsNone(r.val.loaded_rc_path)
        THEN Err("unknown direnv state")
        ELSE r

from_lines(s) ==
    LET r == from_lines_loop(Lines(s), 1, DirenvState(None, None, None, None))
    IN  IF ~r.ok THEN r
        ELSE IF IsNone(r.val.rc_path) \/ IsNone(r.val.allowed)
        THEN Err("unknown direnv state")
        ELSE r

\* ---------------------------------------------- impl FromStr for DirenvState
from_str(s) ==
    LET raw == serde_json_from_str(s)
    IN  IF raw.ok
        THEN LET a  == AllowStatus_try_from(raw.val.state.found_rc.allowed)
                 la == AllowStatus_try_from(raw.val.state.loaded_rc.allowed)
             IN  IF ~a.ok THEN Err(a.err)
                 ELSE IF ~la.ok THEN Err(la.err)
                 ELSE Ok(DirenvState(Some(raw.val.state.found_rc.path),
                                     Some(raw.val.state.loaded_rc.path),
                                     Some(a.val), Some(la.val)))
        ELSE from_lines(s)

\* ------------------------------------------------- DirenvState::is_rc_allowed
\* Sha256 followed by format!("{:x}"): an injective function of the bytes fed
\* to the hasher, modelled by the byte sequence itself
Sha256Hex(bytes) == bytes

\* allow_hasher: update(path), update("\n"), update(bytes)
AllowHash(name, bytes) == Sha256Hex(name \o <<"\n">> \o bytes)

\* deny_hasher: update(path), update("\n")
DenyHash(name) == Sha256Hex(name \o <<"\n">>)

\* "returned" carries the Option<AllowStatus>; "panic" is an unwrap() on a
\* failed read or on a path that is not UTF-8
Returned(v) == [kind |-> "returned", val |-> v]

Panic == [kind |-> "panic", val |-> <<>>]

\* the two marker probes in the opposite order
is_rc_allowed_deny_first(path, fs, allow, deny) ==
    IF IsNone(path) THEN Returned(None)
    ELSE LET file_name == Unwrap(path)
             bytes     == FsRead(fs, file_name)
         IN  IF ~bytes.ok THEN Panic
             ELSE IF IsNone(ToStr(file_name)) THEN Panic
             ELSE IF DenyHash(Unwrap(ToStr(file_name))) \in deny
             THEN Returned(Some("Denied"))
             ELSE IF AllowHash(Unwrap(ToStr(file_name)), bytes.bytes) \in allow
             THEN Returned(Some("Allowed"))
             ELSE Returned(Some("NotAllowed"))

is_rc_allowed(path, fs, allow, deny) ==
    IF IsNone(path) THEN Returned(None)
    ELSE LET file_name == Unwrap(path)
             bytes     == FsRead(fs, file_name)
         IN  IF ~bytes.ok THEN Panic
             ELSE IF IsNone(ToStr(file_name)) THEN Panic
             ELSE IF AllowHash(Unwrap(ToStr(file_name)), bytes.bytes) \in allow
             THEN Returned(Some("Allowed"))
             ELSE IF DenyHash(Unwrap(ToStr(file_name))) \in deny
             THEN Returned(Some("Denied"))
             ELSE Returned(Some("NotAllowed"))

\* ------------------------------------------------------ DirenvState::from_env
\* a walk without the break: the last match, not the first, is kept
RECURSIVE discover_envrc_no_break(_, _)
discover_envrc_no_break(path, fs) ==
    LET maybe_path == Join(path, ENVRC)
        rest == IF IsNone(Parent(path)) THEN None
                ELSE discover_envrc_no_break(Unwrap(Parent(path)), fs)
    IN  IF IsSome(rest) THEN rest
        ELSE IF PathExists(fs, maybe_path) THEN Some(maybe_path)
        ELSE None

\* for path in context.current_dir.ancestors() { ... break }
RECURSIVE discover_envrc(_, _)
discover_envrc(path, fs) ==
    LET maybe_path == Join(path, ENVRC)
    IN  IF PathExists(fs, maybe_path) THEN Some(maybe_path)
        ELSE IF IsNone(Parent(path)) THEN None
        ELSE discover_envrc(Unwrap(Parent(path)), fs)

\* context.get_env("DIRENV_FILE").map(|e| PathBuf::from_str(e).unwrap())
loaded_from_env(env) == IF IsSome(env) THEN Some(Unwrap(env)) ELSE None

from_env(cwd, env, fs, allow, deny) ==
    LET rc_path        == discover_envrc(cwd, fs)
        loaded_rc_path == loaded_from_env(env)
        allowed        == is_rc_allowed(rc_path, fs, allow, deny)
        loaded_allowed == is_rc_allowed(loaded_rc_path, fs, allow, deny)
    IN  IF allowed.kind = "panic" \/ loaded_allowed.kind = "panic" THEN Panic
        ELSE Returned(Ok(DirenvState(rc_path, loaded_rc_path, allowed.val, loaded_allowed.val)))

\* -------------------------------------------------------------------- module
\* the messages of DirenvConfig the tests render with
Config ==
    [allowed_msg |-> "allowed", not_allowed_msg |-> "not allowed", denied_msg |-> "denied",
     loaded_msg |-> "loaded", unloaded_msg |-> "not loaded"]

\* the variable map handed to the StringFormatter
Render(state) ==
    [rc_path |-> state.rc_path,
     allowed |-> IF IsNone(state.allowed) THEN None
                 ELSE IF Unwrap(state.allowed) = "Allowed" THEN Some(Config.allowed_msg)
                 ELSE IF Unwrap(state.allowed) = "NotAllowed" THEN Some(Config.not_allowed_msg)
                 ELSE Some(Config.denied_msg),
     loaded  |-> IF IsSome(state.loaded_rc_path) THEN Some(Config.loaded_msg)
                 ELSE Some(Config.unloaded_msg)]

\* a gate that suppresses as soon as one path is absent
Suppressed_either(state) == IsNone(state.rc_path) \/ IsNone(state.loaded_rc_path)

\* if state.rc_path.is_none() && state.loaded_rc_path.is_none() { return None; }
Suppressed(state) == IsNone(state.rc_path) /\ IsNone(state.loaded_rc_path)

Outcome(kind, state, invoked, out, cmd, fmt) ==
    [kind |-> kind, state |-> state, renderer_invoked |-> invoked, output |-> out,
     cmd_output |-> cmd, format_ok |-> fmt]

Idle == Outcome("idle", None, FALSE, None, None, TRUE)

\* pub fn module(context): cmd is the captured output of the status command the
\* context holds, format_ok whether config.format parses
module(cwd, env, fs, allow, deny, cmd, format_ok) ==
    LET r == from_env(cwd, env, fs, allow, deny)
    IN  IF r.kind = "panic" THEN Outcome("panic", None, FALSE, None, cmd, format_ok)
        ELSE IF ~r.val.ok THEN Outcome("none", None, FALSE, None, cmd, format_ok)
        ELSE LET state == r.val.val
             IN  IF Suppressed(state)
                 THEN Outcome("none", Some(state), FALSE, None, cmd, format_ok)
                 ELSE IF ~format_ok
                 THEN Outcome("none", Some(state), TRUE, None, cmd, format_ok)
                 ELSE Outcome("some", Some(state), TRUE, Some(Render(state)), cmd, format_ok)

\* ------------------------------------------------------------ test fixtures
\* tests::status_cmd_output_with_rc_json
status_cmd_output_with_rc_json(dir, loaded, allowed) ==
    JsonText(JObj(
        [config |-> JObj([ConfigDir |-> JStr(<<"c">>), SelfPath |-> JStr(<<"s">>)]),
         state  |-> JObj(
            [foundRC  |-> JObj([allowed |-> JNum(allowed), path |-> JStr(Join(dir, ENVRC))]),
             loadedRC |-> JObj([allowed |-> JNum(loaded), path |-> JStr(Join(dir, ENVRC))])])]))

\* tests::status_cmd_output_without_rc_json
status_cmd_output_without_rc_json ==
    JsonText(JObj(
        [config |-> JObj([ConfigDir |-> JStr(<<"c">>), SelfPath |-> JStr(<<"s">>)]),
         state  |-> JObj([foundRC |-> JNull, loadedRC |-> JNull])]))

\* ---------------------------------------------------------------- inputs
\* the marker files the store may hold: allow markers of one file under each
\* content, deny markers of two files
AllowMarkers == {AllowHash(Join(Dir(0), ENVRC), c) : c \in Contents}

DenyMarkers == {DenyHash(Join(Dir(0), ENVRC)), DenyHash(Join(Dir(MaxDepth), ENVRC))}

\* values of DIRENV_FILE: the path of a file direnv loaded
EnvValues == {Join(Dir(0), ENVRC), Join(Dir(MaxDepth), ENVRC)}

\* what the context holds for "direnv status --json"
CmdOutputs ==
    {None,
     Some(status_cmd_output_with_rc_json(Dir(MaxDepth), 2, 2)),
     Some(status_cmd_output_without_rc_json)}

\* ------------------------------------------------- the module in its world
Init ==
    /\ files = [p \in FilePaths |-> Missing]
    /\ allow_dir = {}
    /\ deny_dir = {}
    /\ current_dir = Dir(0)
    /\ direnv_file = None
    /\ result = Idle
    /\ text = LineText(<<>>)
    /\ parsed = None

\* a file is created, or its content replaced
WriteFile(p, c) ==
    /\ files[p] # File(c)
    /\ files' = [files EXCEPT ![p] = File(c)]
    /\ result' = Idle
    /\ UNCHANGED <<allow_dir, deny_dir, current_dir, direnv_file, text, parsed>>

\* an entry that exists and cannot be read (a directory, a file without
\* read permission)
MakeUnreadable(p) ==
    /\ files[p] # Unreadable
    /\ files' = [files EXCEPT ![p] = Unreadable]
    /\ result' = Idle
    /\ UNCHANGED <<allow_dir, deny_dir, current_dir, direnv_file, text, parsed>>

RemoveFile(p) ==
    /\ files[p] # Missing
    /\ files' = [files EXCEPT ![p] = Missing]
    /\ result' = Idle
    /\ UNCHANGED <<allow_dir, deny_dir, current_dir, direnv_file, text, parsed>>

\* direnv allow / deny / revoke write and remove the marker files
SetAllowMarker(h, present) ==
    /\ allow_dir' = IF present THEN allow_dir \cup {h} ELSE allow_dir \ {h}
    /\ allow_dir' # allow_dir
    /\ result' = Idle
    /\ UNCHANGED <<files, deny_dir, current_dir, direnv_file, text, parsed>>

SetDenyMarker(h, present) ==
    /\ deny_dir' = IF present THEN deny_dir \cup {h} ELSE deny_dir \ {h}
    /\ deny_dir' # deny_dir
    /\ result' = Idle
    /\ UNCHANGED <<files, allow_dir, current_dir, direnv_file, text, parsed>>

ChangeDir(d) ==
    /\ d # current_dir
    /\ current_dir' = d
    /\ result' = Idle
    /\ UNCHANGED <<files, allow_dir, deny_dir, direnv_file, text, parsed>>

SetEnv(v) ==
    /\ v # direnv_file
    /\ direnv_file' = v
    /\ result' = Idle
    /\ UNCHANGED <<files, allow_dir, deny_dir, current_dir, text, parsed>>

\* one prompt refresh: module(context)
CallModule(cmd, format_ok) ==
    /\ result' = module(current_dir, direnv_file, files, allow_dir, deny_dir, cmd, format_ok)
    /\ UNCHANGED <<files, allow_dir, deny_dir, current_dir, direnv_file, text, parsed>>

Next ==
    \/ \E p \in FilePaths, c \in Contents : WriteFile(p, c)
    \/ \E p \in FilePaths : MakeUnreadable(p)
    \/ \E p \in FilePaths : RemoveFile(p)
    \/ \E h \in AllowMarkers, b \in BOOLEAN : SetAllowMarker(h, b)
    \/ \E h \in DenyMarkers, b \in BOOLEAN : SetDenyMarker(h, b)
    \/ \E d \in Dirs : ChangeDir(d)
    \/ \E v \in {None} \cup {Some(e) : e \in EnvValues} : SetEnv(v)
    \/ \E cmd \in CmdOutputs, f \in BOOLEAN : CallModule(cmd, f)

Spec == Init /\ [][Next]_vars

\* ------------------------------------------------------ the parser's inputs
\* allow codes a structured record may carry, in and out of range
AllowCodes == {0, 1, 2, 3, 255, 256}

ParsePaths == {Join(Dir(0), ENVRC), Join(Dir(1), ENVRC)}

RCObject(n, p) == JObj([allowed |-> JNum(n), path |-> JStr(p)])

\* values of foundRC / loadedRC: null, a status object, an object whose
\* allowed field has the wrong type
RCValues ==
    {JNull} \cup {RCObject(n, p) : n \in AllowCodes, p \in ParsePaths}
            \cup {JObj([allowed |-> JStr(<<"0">>), path |-> JStr(Join(Dir(0), ENVRC))])}

Absent == [t |-> "absent"]

\* an object holding the fields whose value is not Absent
ObjectOf(found, loaded) ==
    JObj([k \in {x \in {"foundRC"} : found # Absent} \cup {x \in {"loadedRC"} : loaded # Absent}
            |-> IF k = "foundRC" THEN found ELSE loaded])

\* a record with a state object, with or without the unrelated config field
StatusRecord(found, loaded, with_config) ==
    IF with_config
    THEN JObj([config |-> JObj([SelfPath |-> JStr(<<"s">>)]), state |-> ObjectOf(found, loaded)])
    ELSE JObj([state |-> ObjectOf(found, loaded)])

JsonDocs ==
    {StatusRecord(f, l, c) : f \in RCValues \cup {Absent}, l \in RCValues \cup {Absent},
                             c \in BOOLEAN}

Sp == <<" ">>

TOK_TRUE == <<"t", "r", "u", "e">>

TOK_FALSE == <<"f", "a", "l", "s", "e">>

\* tokens after "Found RC allowed": every valid one and an invalid one
FoundTokens == {<<"0">>, TOK_TRUE, <<"1">>, <<"2">>, TOK_FALSE, <<"3">>}

LoadedTokens == {TOK_TRUE, <<"1">>, <<"x">>}

\* lines of direnv status that carry no state
NoiseLines ==
    {FOUND_RC_ALLOWPATH,
     NO_ENVRC_FOUND,
     <<" ", " ">> \o LOADED_RC_PATH \o Sp \o Join(Dir(0), ENVRC)}

StatusLines ==
    {FOUND_RC_PATH \o Sp \o p : p \in ParsePaths}
    \cup {FOUND_RC_ALLOWED \o Sp \o t : t \in FoundTokens}
    \cup {LOADED_RC_PATH \o Sp \o Join(Dir(0), ENVRC)}
    \cup {LOADED_RC_ALLOWED \o Sp \o t : t \in LoadedTokens}
    \cup NoiseLines

\* ---------------------------------------------------- the parser on its own
ParseInit ==
    /\ text = LineText(<<>>)
    /\ parsed = None
    /\ files = [p \in FilePaths |-> Missing]
    /\ allow_dir = {}
    /\ deny_dir = {}
    /\ current_dir = Dir(0)
    /\ direnv_file = None
    /\ result = Idle

\* the status command printed a structured record
SetJson(doc) ==
    /\ text = LineText(<<>>)
    /\ text' = JsonText(doc)
    /\ parsed' = None
    /\ UNCHANGED envVars

\* the status command printed one more line
AppendLine(l) ==
    /\ text.kind = "lines"
    /\ Len(text.lines) < MaxLines
    /\ text' = LineText(Append(text.lines, l))
    /\ parsed' = None
    /\ UNCHANGED envVars

ClearText ==
    /\ text # LineText(<<>>)
    /\ text' = LineText(<<>>)
    /\ parsed' = None
    /\ UNCHANGED envVars

\* text.parse::<DirenvState>()
Parse ==
    /\ parsed' = Some(from_str(text))
    /\ UNCHANGED <<text, envVars>>

ParseNext ==
    \/ \E doc \in JsonDocs : SetJson(doc)
    \/ \E l \in StatusLines : AppendLine(l)
    \/ ClearText
    \/ Parse

ParseSpec == ParseInit /\ [][ParseNext]_vars

\* ================================================================= claims
Called == result.kind # "idle"

Resolved == IsSome(result.state)

State == Unwrap(result.state)

\* d is the directory cwd or one of the directories above it
IsAncestorOrSelf(d, cwd) ==
    \/ d = cwd
    \/ d = <<"/">> /\ Len(cwd) > 1 /\ cwd[1] = "/"
    \/ Len(d) < Len(cwd) /\ SubSeq(cwd, 1, Len(d)) = d /\ cwd[Len(d) + 1] = "/"

\* the directories on the chain from the current directory to the root that
\* hold a .envrc entry
GoverningDirs ==
    {d \in Dirs : IsAncestorOrSelf(d, current_dir) /\ files[Join(d, ENVRC)].exists}

NearestEnvrc ==
    IF GoverningDirs = {} THEN None
    ELSE Some(Join(CHOOSE d \in GoverningDirs : \A e \in GoverningDirs : Len(e) <= Len(d),
                   ENVRC))

\* C1: the walk yields the .envrc of the nearest directory among the start
\* directory and its ancestors that holds one, and nothing exactly when no
\* directory up to and including the root holds one; a resolved state carries
\* that path as rc_path.
C1_NearestEnvrcWins ==
    /\ discover_envrc(current_dir, files) = NearestEnvrc
    /\ Resolved => State.rc_path = NearestEnvrc

\* C1 witness: .envrc in the deepest directory and in the root, the module
\* called from the deepest directory resolves the deepest one.
C1_Witness ==
    /\ result.kind = "some"
    /\ current_dir = Dir(MaxDepth)
    /\ files[Join(Dir(0), ENVRC)].exists
    /\ files[Join(Dir(MaxDepth), ENVRC)].exists
    /\ State.rc_path = Some(Join(Dir(MaxDepth), ENVRC))

\* C2: a resolved state with both paths absent gives no output and never
\* reaches the renderer; a resolved state with a path present always reaches
\* the renderer.
C2_SingleSuppressionRule ==
    Resolved =>
        IF State.rc_path = None /\ State.loaded_rc_path = None
        THEN result.kind = "none" /\ ~result.renderer_invoked /\ result.output = None
        ELSE result.renderer_invoked

\* C2 witness: the module was called where nothing governs and nothing is
\* loaded, and returned None without rendering.
C2_Witness ==
    /\ result.kind = "none"
    /\ Resolved
    /\ State.rc_path = None
    /\ State.loaded_rc_path = None
    /\ ~result.renderer_invoked

\* the three-way decision over the marker store for the file at p
Decision(p, fs, allow, deny) ==
    IF (p \o <<"\n">> \o fs[p].bytes) \in allow THEN "Allowed"
    ELSE IF (p \o <<"\n">>) \in deny THEN "Denied"
    ELSE "NotAllowed"

ReadableUtf8(p, fs) == fs[p].exists /\ fs[p].readable /\ IsSome(ToStr(p))

\* C7: for a present, readable path the status is Allowed iff the allow
\* marker of (path, newline, content) exists, else Denied iff the deny marker
\* of (path, newline) exists, else NotAllowed; and replacing the content of a
\* file that then has no matching allow marker leaves the status Denied
\* exactly when the deny marker of the path exists.
C7_ThreeWayDecision ==
    /\ \A p \in FilePaths :
          ReadableUtf8(p, files) =>
              is_rc_allowed(Some(p), files, allow_dir, deny_dir)
                  = Returned(Some(Decision(p, files, allow_dir, deny_dir)))
    /\ Resolved /\ IsSome(State.rc_path) =>
          State.allowed = Some(Decision(Unwrap(State.rc_path), files, allow_dir, deny_dir))
    /\ Resolved /\ IsSome(State.loaded_rc_path) =>
          State.loaded_allowed
              = Some(Decision(Unwrap(State.loaded_rc_path), files, allow_dir, deny_dir))
    /\ \A p \in FilePaths, c \in Contents :
          LET edited == [files EXCEPT ![p] = File(c)]
              after  == is_rc_allowed(Some(p), edited, allow_dir, deny_dir)
          IN  ReadableUtf8(p, files) /\ (p \o <<"\n">> \o c) \notin allow_dir =>
                  (after = Returned(Some("Denied")) <=> (p \o <<"\n">>) \in deny_dir)

\* C7 witness: the governing file has a matching allow marker and a deny
\* marker, and was resolved as Allowed.
C7_Witness ==
    /\ result.kind = "some"
    /\ State.rc_path = Some(Join(Dir(0), ENVRC))
    /\ (Join(Dir(0), ENVRC) \o <<"\n">> \o files[Join(Dir(0), ENVRC)].bytes) \in allow_dir
    /\ (Join(Dir(0), ENVRC) \o <<"\n">>) \in deny_dir
    /\ State.allowed = Some("Allowed")

\* C3: whenever the captured output of the status command decodes, the state
\* the module renders is the decoded one.
C3_DecodedOutputIsRendered ==
    Called /\ IsSome(result.cmd_output) /\ from_str(Unwrap(result.cmd_output)).ok =>
        /\ Resolved
        /\ State = from_str(Unwrap(result.cmd_output)).val

\* C4: a call of the module ends with no output or with rendered output,
\* never by aborting; a file that cannot be read while hashing gives no output.
C4_NeverAborts ==
    Called => result.kind \in {"none", "some"}

\* C10: with DIRENV_FILE set and not empty the resolver returns a state whose
\* loaded_rc_path is the variable's value, whether or not the named file
\* exists; with the variable unset or empty loaded_rc_path and loaded_allowed
\* are absent.
C10_LoadedPathFromEnv ==
    Called /\ is_rc_allowed(discover_envrc(current_dir, files), files, allow_dir, deny_dir).kind
                 = "returned" =>
        IF IsSome(direnv_file) /\ Unwrap(direnv_file) # <<>>
        THEN Resolved /\ State.loaded_rc_path = direnv_file
        ELSE Resolved /\ State.loaded_rc_path = None /\ State.loaded_allowed = None

\* ------------------------------------------------------- claims on decoding
Decoded == Unwrap(parsed)

CodeStatus(n) == IF n = 0 THEN "Allowed" ELSE IF n = 1 THEN "NotAllowed" ELSE "Denied"

StatusCode(a) == IF a = "Allowed" THEN 0 ELSE IF a = "NotAllowed" THEN 1 ELSE 2

Digit(n) == IF n = 0 THEN <<"0">> ELSE IF n = 1 THEN <<"1">> ELSE <<"2">>

TokenStatus(t) ==
    IF t \in {<<"0">>, TOK_TRUE} THEN "Allowed"
    ELSE IF t = <<"1">> THEN "NotAllowed"
    ELSE "Denied"

ValidTokens == {<<"0">>, TOK_TRUE, <<"1">>, <<"2">>, TOK_FALSE}

HasPrefix(l, prefix) == Len(l) >= Len(prefix) /\ \A i \in 1..Len(prefix) : l[i] = prefix[i]

\* the trimmed remainder of a line after a prefix
Remainder(l, prefix) == Trim(SubSeq(l, Len(prefix) + 1, Len(l)))

Recognised(l) ==
    \/ HasPrefix(l, FOUND_RC_PATH) \/ HasPrefix(l, FOUND_RC_ALLOWED)
    \/ HasPrefix(l, LOADED_RC_PATH) \/ HasPrefix(l, LOADED_RC_ALLOWED)

Occurs(ls, prefix) == \E i \in 1..Len(ls) : HasPrefix(ls[i], prefix)

\* the last line of ls that starts with prefix
LastWith(ls, prefix) ==
    ls[CHOOSE i \in 1..Len(ls) :
          HasPrefix(ls[i], prefix) /\ \A j \in (i + 1)..Len(ls) : ~HasPrefix(ls[j], prefix)]

AllTokensValid(ls) ==
    \A i \in 1..Len(ls) :
        /\ HasPrefix(ls[i], FOUND_RC_ALLOWED) => Remainder(ls[i], FOUND_RC_ALLOWED) \in ValidTokens
        /\ HasPrefix(ls[i], LOADED_RC_ALLOWED) => Remainder(ls[i], LOADED_RC_ALLOWED) \in ValidTokens

\* a status object {allowed: number, path: string}
IsStatusObject(v) ==
    v.t = "obj" /\ DOMAIN v.f = {"allowed", "path"} /\ v.f["allowed"].t = "num"

\* a record whose state holds a status object on both sides
BothSidesPresent(doc) ==
    /\ DOMAIN doc.f["state"].f = {"foundRC", "loadedRC"}
    /\ IsStatusObject(doc.f["state"].f["foundRC"])
    /\ IsStatusObject(doc.f["state"].f["loadedRC"])

\* C8: integers 0, 1, 2 and tokens "0"/"true", "1", "2"/"false" map to
\* Allowed, NotAllowed, Denied, the two conversions agree on 0, 1, 2, and any
\* other integer or token makes the conversion and the whole decode fail.
C8_FailClosed ==
    /\ \A n \in AllowCodes \cap 0..255 :
          IF n \in 0..2 THEN AllowStatus_try_from(n) = Ok(CodeStatus(n))
          ELSE ~AllowStatus_try_from(n).ok
    /\ \A t \in FoundTokens \cup LoadedTokens :
          IF t \in ValidTokens THEN AllowStatus_from_str(t) = Ok(TokenStatus(t))
          ELSE ~AllowStatus_from_str(t).ok
    /\ \A n \in 0..2 : AllowStatus_try_from(n) = AllowStatus_from_str(Digit(n))
    /\ IsSome(parsed) /\ text.kind = "json" /\ BothSidesPresent(text.doc) =>
          LET found  == text.doc.f["state"].f["foundRC"].f
              loaded == text.doc.f["state"].f["loadedRC"].f
          IN  IF found["allowed"].n \in 0..2 /\ loaded["allowed"].n \in 0..2
              THEN Decoded = Ok(DirenvState(Some(found["path"].s), Some(loaded["path"].s),
                                            Some(CodeStatus(found["allowed"].n)),
                                            Some(CodeStatus(loaded["allowed"].n))))
              ELSE ~Decoded.ok
    /\ IsSome(parsed) /\ text.kind = "lines" =>
          /\ ~AllTokensValid(text.lines) => ~Decoded.ok
          /\ Decoded.ok =>
                Decoded.val.allowed
                    = Some(TokenStatus(Remainder(LastWith(text.lines, FOUND_RC_ALLOWED),
                                                 FOUND_RC_ALLOWED)))

\* C8 witness: a structured record with allow code 3 on the found side was
\* decoded, and the decode failed.
C8_Witness ==
    /\ IsSome(parsed)
    /\ text.kind = "json"
    /\ BothSidesPresent(text.doc)
    /\ text.doc.f["state"].f["foundRC"].f["allowed"].n = 3
    /\ text.doc.f["state"].f["loadedRC"].f["allowed"].n = 0
    /\ ~Decoded.ok

\* the lines of ls that one of the four prefixes matches
RECURSIVE WithoutNoise(_)
WithoutNoise(ls) ==
    IF ls = <<>> THEN <<>>
    ELSE IF Recognised(Head(ls)) THEN <<Head(ls)>> \o WithoutNoise(Tail(ls))
    ELSE WithoutNoise(Tail(ls))

ValidRCObjects == {RCObject(n, p) : n \in 0..2, p \in ParsePaths}

\* C5: a null or absent foundRC (resp. loadedRC) in an otherwise well-formed
\* record decodes to a state whose path and status are both absent on that
\* side and decoded on the other; in every decoded structured state a side's
\* status is present iff its path is.
C5_OptionalSides ==
    IsSome(parsed) /\ text.kind = "json" =>
        /\ \A side \in {JNull, Absent}, other \in ValidRCObjects, c \in BOOLEAN :
              /\ text.doc = StatusRecord(side, other, c) =>
                    Decoded = Ok(DirenvState(None, Some(other.f["path"].s), None,
                                             Some(CodeStatus(other.f["allowed"].n))))
              /\ text.doc = StatusRecord(other, side, c) =>
                    Decoded = Ok(DirenvState(Some(other.f["path"].s), None,
                                             Some(CodeStatus(other.f["allowed"].n)), None))
        /\ Decoded.ok =>
              /\ IsSome(Decoded.val.allowed) <=> IsSome(Decoded.val.rc_path)
              /\ IsSome(Decoded.val.loaded_allowed) <=> IsSome(Decoded.val.loaded_rc_path)

\* an abstract state: a found path with a status, and no loaded file or a
\* loaded path with a status
AbstractStates ==
    {DirenvState(Some(p), None, Some(a), None) : p \in ParsePaths, a \in AllowStatus}
    \cup {DirenvState(Some(p), Some(lp), Some(a), Some(la)) :
              p \in ParsePaths, lp \in ParsePaths, a \in AllowStatus, la \in AllowStatus}

\* the structured record direnv prints for an abstract state
StructuredEncoding(A) ==
    JsonText(StatusRecord(
        RCObject(StatusCode(Unwrap(A.allowed)), Unwrap(A.rc_path)),
        IF IsSome(A.loaded_rc_path)
        THEN RCObject(StatusCode(Unwrap(A.loaded_allowed)), Unwrap(A.loaded_rc_path))
        ELSE JNull,
        TRUE))

\* the lines direnv prints for an abstract state
LegacyEncoding(A) ==
    LineText(
        (IF IsSome(A.loaded_rc_path)
         THEN <<LOADED_RC_PATH \o Sp \o Unwrap(A.loaded_rc_path),
                LOADED_RC_ALLOWED \o Sp \o Digit(StatusCode(Unwrap(A.loaded_allowed)))>>
         ELSE <<>>)
        \o <<FOUND_RC_PATH \o Sp \o Unwrap(A.rc_path),
             FOUND_RC_ALLOWED \o Sp \o Digit(StatusCode(Unwrap(A.allowed)))>>)

\* C6: for every abstract state, the decode of its structured encoding and
\* the decode of its line encoding both succeed and give the same four fields.
C6_FormatIndependence ==
    IsSome(parsed) =>
        \A A \in AbstractStates :
            text = StructuredEncoding(A) =>
                /\ Decoded.ok
                /\ from_str(LegacyEncoding(A)).ok
                /\ Decoded.val = from_str(LegacyEncoding(A)).val

====
